---- MODULE Spec2Model ----
(***************************************************************************)
(* The Spotify dashboard of src/app.py as a state machine.                 *)
(*                                                                         *)
(* The script is executed from its first line to its last on every script  *)
(* run of a browser session.  A session owns st.session_state and          *)
(* st.query_params; every session of the server process shares the secrets *)
(* and the token cache file ".spotifycache" that get_spotify_oauth hands   *)
(* to SpotifyOAuth.  A session begins with a page load, which fixes the    *)
(* query parameters of its URL; the script itself only ever clears them.   *)
(*                                                                         *)
(* A script run is cut into the steps between which time passes or another *)
(* session runs: the credentials, get_token_info, get_spotify_client, the  *)
(* dashboard's sidebar, and the three API reads.  A button press or a      *)
(* rerun request abandons the run in progress and starts the next one.     *)
(*                                                                         *)
(* SpotifyOAuth is the spotipy class: get_access_token answers from the    *)
(* cache file when it holds a token (refreshing it when it is about to     *)
(* expire) and exchanges the code only when the file holds none; every     *)
(* token obtained is written to the file.  Calls to the accounts service   *)
(* and to the Web API succeed or raise, nondeterministically.              *)
(*                                                                         *)
(* The variables marked "history" record what has happened; no action      *)
(* reads them.                                                             *)
(***************************************************************************)
EXTENDS Integers, FiniteSets

\* ---------------------------------------------------------------- bounds
MaxTime == 3        \* the clock runs from 0 to MaxTime seconds
MaxIssued == 2      \* access tokens the accounts service issues in a run of the model
ExpiresIn == 62     \* lifetime in seconds of an issued access token
MaxCodes == 1       \* distinct authorization codes a page load may carry

\* ------------------------------------------------------- program constants
RefreshMargin == 60 \* "expires_at - now < 60"

Sessions == {1, 2}              \* browser sessions; session s is operated by account s
Codes == 1..MaxCodes
NoCode == 0
CredNames == {"SPOTIPY_CLIENT_ID", "SPOTIPY_CLIENT_SECRET", "SPOTIPY_REDIRECT_URI"}
CredStates == {"set", "empty", "absent"}

\* A TokenInfo dictionary; refresh_token identifies the account that granted it.
NoToken == [access_token |-> 0, refresh_token |-> 0, expires_at |-> 0]

VARIABLES
    secrets,         \* st.secrets: each credential set, empty or absent
    now,             \* time.time()
    issued,          \* access tokens issued so far by the accounts service
    cache,           \* contents of the file .spotifycache
    session_state,   \* st.session_state['token_info'] of each session (NoToken: absent)
    query_params,    \* st.query_params['code'] of each session (NoCode: absent)
    pc,              \* position of the session's script run
    clicked,         \* the button whose press triggered the run
    ui,              \* what the session's page shows
    sp,              \* auth of the spotipy.Spotify client of the run (0: none)
    nowRead,         \* the local `now` of get_spotify_client in the run
    refreshedInRun,  \* history: get_spotify_client refreshed the token in this run
    needLogin,       \* history: why the session lost its token, until it gets one again
    attempts,        \* history: the code in the URL was submitted "never", "once" or "again"
    exchanged,       \* history: codes of the session exchanged successfully
    lastReturned     \* history: token returned by the latest successful exchange or refresh

vars == <<secrets, now, issued, cache, session_state, query_params, pc, clicked, ui,
          sp, nowRead, refreshedInRun, needLogin, attempts, exchanged, lastReturned>>

shared == <<secrets, now, issued, cache>>

ApiPcs == {"profile", "artists", "recent"}

\* ------------------------------------------------------------ pure helpers

\* Mutants of the expiry test: the margin forgotten, and the margin mistyped.
IsExpiredNoMargin(token_info, t) == token_info.expires_at - t < 0
IsExpiredWideMargin(token_info, t) == token_info.expires_at - t < 10 * RefreshMargin

\* line 70: is_expired = token_info.get('expires_at', 0) - now < 60
IsExpired(token_info, t) == token_info.expires_at - t < RefreshMargin

\* SpotifyOAuth.is_token_expired, the same test inside the library, used on the
\* cached token by get_access_token (line 47).
IsTokenExpired(token_info, t) == token_info.expires_at - t < RefreshMargin

\* The token record the accounts service answers with at time t for account u.
IssueToken(u, t, n) == [access_token |-> n, refresh_token |-> u, expires_at |-> t + ExpiresIn]

\* line 141: all([CLIENT_ID, CLIENT_SECRET, REDIRECT_URI])
AllCredentials == \A c \in CredNames : secrets[c] = "set"

\* lines 10-14: st.secrets[...] raises when a key is absent
SecretsRaise == \E c \in CredNames : secrets[c] = "absent"

Init ==
    /\ secrets \in [CredNames -> CredStates]
    /\ now = 0
    /\ issued = 0
    /\ cache = NoToken
    /\ session_state = [s \in Sessions |-> NoToken]
    /\ query_params = [s \in Sessions |-> NoCode]
    /\ pc = [s \in Sessions |-> "none"]
    /\ clicked = [s \in Sessions |-> "none"]
    /\ ui = [s \in Sessions |-> "none"]
    /\ sp = [s \in Sessions |-> 0]
    /\ nowRead = [s \in Sessions |-> 0]
    /\ refreshedInRun = [s \in Sessions |-> FALSE]
    /\ needLogin = [s \in Sessions |-> "no"]
    /\ attempts = [s \in Sessions |-> "never"]
    /\ exchanged = [s \in Sessions |-> {}]
    /\ lastReturned = [s \in Sessions |-> NoToken]

\* The locals of a script run are gone when a run starts or ends.
RunLocalsCleared(s) ==
    /\ sp' = [sp EXCEPT ![s] = 0]
    /\ nowRead' = [nowRead EXCEPT ![s] = 0]
    /\ refreshedInRun' = [refreshedInRun EXCEPT ![s] = FALSE]

\* The run ends showing `page`.
EndRun(s, page) ==
    /\ pc' = [pc EXCEPT ![s] = "idle"]
    /\ ui' = [ui EXCEPT ![s] = page]
    /\ clicked' = [clicked EXCEPT ![s] = "none"]
    /\ RunLocalsCleared(s)

\* st.rerun(): the run is abandoned and the script starts again.
StRerun(s) ==
    /\ pc' = [pc EXCEPT ![s] = "start"]
    /\ clicked' = [clicked EXCEPT ![s] = "none"]
    /\ RunLocalsCleared(s)
    /\ UNCHANGED ui

\* ------------------------------------------------------------ user events

\* The browser loads the page, with or without ?code= in the URL (the redirect
\* back from the authorization page): a new session with an empty session state.
\* (A page load during a run leads to the states a page load after it leads to.)
PageLoad(s, c) ==
    /\ pc[s] \in {"none", "idle"}
    /\ pc' = [pc EXCEPT ![s] = "start"]
    /\ session_state' = [session_state EXCEPT ![s] = NoToken]
    /\ query_params' = [query_params EXCEPT ![s] = c]
    /\ clicked' = [clicked EXCEPT ![s] = "none"]
    /\ ui' = [ui EXCEPT ![s] = "none"]
    /\ RunLocalsCleared(s)
    /\ needLogin' = [needLogin EXCEPT ![s] = "no"]
    /\ attempts' = [attempts EXCEPT ![s] = "never"]
    /\ exchanged' = [exchanged EXCEPT ![s] = {}]
    /\ lastReturned' = [lastReturned EXCEPT ![s] = NoToken]
    /\ UNCHANGED shared

\* The script is rerun at the user's request (Streamlit's "Rerun"): same
\* session, same URL, no button pressed.
Rerun(s) ==
    /\ pc[s] # "none"
    /\ StRerun(s)
    /\ UNCHANGED <<shared, session_state, query_params, needLogin, attempts,
                   exchanged, lastReturned>>

\* The sidebar's Logout button is on the page once a run has rendered it.
LogoutRendered(s) == ui[s] \in {"dashboard", "api_exception"}

\* line 166: the press of Logout starts a run in which st.button returns True.
PressLogout(s) ==
    /\ pc[s] # "none"
    /\ LogoutRendered(s)
    /\ pc' = [pc EXCEPT ![s] = "start"]
    /\ clicked' = [clicked EXCEPT ![s] = "Logout"]
    /\ RunLocalsCleared(s)
    /\ UNCHANGED <<shared, session_state, query_params, ui, needLogin, attempts,
                   exchanged, lastReturned>>

\* line 179: the press of Retry Login.
PressRetryLogin(s) ==
    /\ pc[s] # "none"
    /\ ui[s] = "retry"
    /\ pc' = [pc EXCEPT ![s] = "start"]
    /\ clicked' = [clicked EXCEPT ![s] = "Retry Login"]
    /\ RunLocalsCleared(s)
    /\ UNCHANGED <<shared, session_state, query_params, ui, needLogin, attempts,
                   exchanged, lastReturned>>

\* line 69: the clock that time.time() reads.
Tick ==
    /\ now < MaxTime
    /\ now' = now + 1
    /\ UNCHANGED <<secrets, issued, cache, session_state, query_params, pc, clicked, ui,
                   sp, nowRead, refreshedInRun, needLogin, attempts, exchanged,
                   lastReturned>>

\* ------------------------------------------------------------ the script

\* lines 10-14, the module-level reads of st.secrets, and lines 140-145, main's
\* check for missing credentials.
LoadCredentials(s) ==
    /\ pc[s] = "start"
    /\ IF SecretsRaise
         THEN EndRun(s, "secrets_exception")
         ELSE IF ~AllCredentials
                THEN EndRun(s, "credentials_error")
                ELSE /\ pc' = [pc EXCEPT ![s] = "get_token_info"]
                     /\ UNCHANGED <<clicked, ui, sp, nowRead, refreshedInRun>>
    /\ UNCHANGED <<shared, session_state, query_params, needLogin, attempts,
                   exchanged, lastReturned>>

\* ------------------------------------------------- SpotifyOAuth (line 26-34)
\* get_spotify_oauth builds every SpotifyOAuth with cache_path=".spotifycache":
\* the object reads its token from that file before it asks the accounts service
\* and writes every token it obtains to it.  An outcome of a call is either an
\* exception or the returned token; `posted` tells whether the authorization code
\* was sent to the accounts service.

\* sp_oauth.refresh_access_token(refresh_token), line 73
RefreshAccessToken(refresh_token) ==
    {[raised |-> TRUE, token |-> NoToken, posted |-> FALSE]}
    \cup (IF issued < MaxIssued
            THEN {[raised |-> FALSE, posted |-> FALSE,
                   token |-> IssueToken(refresh_token, now, issued + 1)]}
            ELSE {})

\* sp_oauth.get_access_token(auth_code, as_dict=True), line 47, by account u
GetAccessToken(u) ==
    IF cache # NoToken
      THEN IF IsTokenExpired(cache, now)
             THEN RefreshAccessToken(cache.refresh_token)
             ELSE {[raised |-> FALSE, token |-> cache, posted |-> FALSE]}
      ELSE {[raised |-> TRUE, token |-> NoToken, posted |-> TRUE]}
           \cup (IF issued < MaxIssued
                   THEN {[raised |-> FALSE, posted |-> TRUE,
                          token |-> IssueToken(u, now, issued + 1)]}
                   ELSE {})

\* What a call leaves in the accounts service and in the cache file.
OAuthEffect(out) ==
    /\ cache' = IF out.raised THEN cache ELSE out.token
    /\ issued' = IF ~out.raised /\ out.token.access_token > issued
                   THEN issued + 1 ELSE issued
    /\ UNCHANGED <<secrets, now>>

\* Mutant: the query parameters are left as they are.
QueryParamsKept(s) == query_params

\* line 50: st.query_params.clear()
QueryParamsCleared(s) == [query_params EXCEPT ![s] = NoCode]

\* line 48: st.session_state['token_info'] = token_info
TokenStored(s, token_info) == [session_state EXCEPT ![s] = token_info]

\* lines 78, 167, 180: st.session_state.pop('token_info', None)
TokenPopped(s) == [session_state EXCEPT ![s] = NoToken]

Submitted(n) == IF n = "never" THEN "once" ELSE "again"

\* lines 150-157: the login page, with the authorize URL behind its button.
LoginPage(s, page) == EndRun(s, page)

\* get_token_info with a code in the URL, lines 42-54, and main's branch on
\* its result, lines 147-157.
GetTokenInfoCode(s) ==
    /\ pc[s] = "get_token_info"
    /\ query_params[s] # NoCode
    /\ \E out \in GetAccessToken(s) :
         /\ OAuthEffect(out)
         /\ attempts' = [attempts EXCEPT ![s] = IF out.posted THEN Submitted(@) ELSE @]
         /\ IF out.raised
              THEN \* lines 52-54: st.error, return None; main shows the login page
                   /\ LoginPage(s, "login_error")
                   /\ UNCHANGED <<session_state, query_params, needLogin, exchanged,
                                  lastReturned>>
              ELSE \* lines 48-51
                   /\ session_state' = TokenStored(s, out.token)
                   /\ query_params' = QueryParamsCleared(s)
                   /\ StRerun(s)
                   /\ needLogin' = [needLogin EXCEPT ![s] = IF out.posted THEN "no" ELSE @]
                   /\ exchanged' = [exchanged EXCEPT
                                      ![s] = IF out.posted THEN @ \cup {query_params[s]} ELSE @]
                   /\ lastReturned' = [lastReturned EXCEPT ![s] = out.token]

\* get_token_info without a code in the URL, lines 42 and 56, and main's branch
\* on its result, lines 147-160.
GetTokenInfoSession(s) ==
    /\ pc[s] = "get_token_info"
    /\ query_params[s] = NoCode
    /\ IF session_state[s] = NoToken
         THEN LoginPage(s, "login")
         ELSE /\ pc' = [pc EXCEPT ![s] = "client"]
              /\ UNCHANGED <<clicked, ui, sp, nowRead, refreshedInRun>>
    /\ UNCHANGED <<shared, session_state, query_params, needLogin, attempts,
                   exchanged, lastReturned>>

\* Mutant: only the access token of the stored record is overwritten.
PatchedAfterRefresh(s, old, new) ==
    [session_state EXCEPT ![s] = [old EXCEPT !.access_token = new.access_token]]

\* Mutants: the token stays in the session state.
KeptOnRefreshFailure(s) == session_state
KeptOnLogout(s) == session_state

\* line 74: st.session_state['token_info'] = token_info, after a refresh
StoredAfterRefresh(s, old, new) == [session_state EXCEPT ![s] = new]

\* line 78: st.session_state.pop('token_info', None), after a failed refresh
PoppedOnRefreshFailure(s) == TokenPopped(s)

\* line 167: st.session_state.pop('token_info', None), on Logout
PoppedOnLogout(s) == TokenPopped(s)

\* line 180: st.session_state.pop('token_info', None), on Retry Login
PoppedOnRetryLogin(s) == TokenPopped(s)

\* line 81: spotipy.Spotify(auth=token_info['access_token'])
SpotifyClient(token_info) == token_info.access_token

\* get_spotify_client, lines 58-81, called at line 160 with the session's token.
GetSpotifyClient(s) ==
    /\ pc[s] = "client"
    /\ pc' = [pc EXCEPT ![s] = "dashboard"]
    /\ nowRead' = [nowRead EXCEPT ![s] = now]
    /\ UNCHANGED <<query_params, attempts, exchanged, clicked, ui>>
    /\ LET token_info == session_state[s] IN
       IF IsExpired(token_info, now)
         THEN \E out \in RefreshAccessToken(token_info.refresh_token) :
                /\ OAuthEffect(out)
                /\ IF out.raised
                     THEN \* lines 75-79: st.error, pop, return None
                          /\ session_state' = PoppedOnRefreshFailure(s)
                          /\ needLogin' = [needLogin EXCEPT ![s] = "refresh_failed"]
                          /\ sp' = [sp EXCEPT ![s] = 0]
                          /\ UNCHANGED <<lastReturned, refreshedInRun>>
                     ELSE \* lines 73-74, 81
                          /\ session_state' = StoredAfterRefresh(s, token_info, out.token)
                          /\ lastReturned' = [lastReturned EXCEPT ![s] = out.token]
                          /\ sp' = [sp EXCEPT ![s] = SpotifyClient(out.token)]
                          /\ refreshedInRun' = [refreshedInRun EXCEPT ![s] = TRUE]
                          /\ UNCHANGED needLogin
         ELSE /\ sp' = [sp EXCEPT ![s] = SpotifyClient(token_info)]
              /\ UNCHANGED <<shared, session_state, lastReturned, refreshedInRun, needLogin>>

\* main with the result of get_spotify_client, lines 160-181, up to the first
\* API read: the sidebar with its Logout button, or the Retry Login page.
Dashboard(s) ==
    /\ pc[s] = "dashboard"
    /\ UNCHANGED <<shared, query_params, attempts, exchanged, lastReturned>>
    /\ IF sp[s] # 0
         THEN IF clicked[s] = "Logout"
                THEN \* lines 166-168
                     /\ session_state' = PoppedOnLogout(s)
                     /\ needLogin' = [needLogin EXCEPT ![s] = "logout"]
                     /\ StRerun(s)
                ELSE /\ pc' = [pc EXCEPT ![s] = "profile"]
                     /\ ui' = [ui EXCEPT ![s] = "dashboard"]
                     /\ clicked' = [clicked EXCEPT ![s] = "none"]
                     /\ UNCHANGED <<session_state, needLogin, sp, nowRead, refreshedInRun>>
         ELSE IF clicked[s] = "Retry Login"
                THEN \* lines 179-181
                     /\ session_state' = PoppedOnRetryLogin(s)
                     /\ StRerun(s)
                     /\ UNCHANGED needLogin
                ELSE /\ EndRun(s, "retry")
                     /\ UNCHANGED <<session_state, needLogin>>

\* One of the three reads of the Web API with the run's client: it returns, or
\* it raises and nothing in the script catches the exception.
ApiRead(s, here, next) ==
    /\ pc[s] = here
    /\ \E raised \in BOOLEAN :
         IF raised
           THEN EndRun(s, "api_exception")
           ELSE IF next = "idle"
                  THEN EndRun(s, "dashboard")
                  ELSE /\ pc' = [pc EXCEPT ![s] = next]
                       /\ UNCHANGED <<clicked, ui, sp, nowRead, refreshedInRun>>
    /\ UNCHANGED <<shared, session_state, query_params, needLogin, attempts,
                   exchanged, lastReturned>>

\* lines 84-97, 99-115, 118-135
DisplayUserProfile(s) == ApiRead(s, "profile", "artists")
DisplayTopArtists(s) == ApiRead(s, "artists", "recent")
DisplayRecentlyPlayed(s) == ApiRead(s, "recent", "idle")

Next ==
    \/ \E s \in Sessions, c \in {NoCode} \cup Codes : PageLoad(s, c)
    \/ \E s \in Sessions : Rerun(s)
    \/ \E s \in Sessions : PressLogout(s)
    \/ \E s \in Sessions : PressRetryLogin(s)
    \/ Tick
    \/ \E s \in Sessions : LoadCredentials(s)
    \/ \E s \in Sessions : GetTokenInfoCode(s)
    \/ \E s \in Sessions : GetTokenInfoSession(s)
    \/ \E s \in Sessions : GetSpotifyClient(s)
    \/ \E s \in Sessions : Dashboard(s)
    \/ \E s \in Sessions : DisplayUserProfile(s)
    \/ \E s \in Sessions : DisplayTopArtists(s)
    \/ \E s \in Sessions : DisplayRecentlyPlayed(s)

\* ------------------------------------------------------------ properties

\* A step in which session s issues one of the three API reads.
ApiCallStep(s) ==
    /\ pc[s] \in ApiPcs
    /\ pc'[s] \in ApiPcs \cup {"idle"}
    /\ pc'[s] # pc[s]

\* A step in which session s executes get_spotify_client.
ClientStep(s) == pc[s] = "client" /\ pc'[s] = "dashboard"

\* C1 as stated: no API read is issued while the session's token is within 60
\* seconds of its expiry; the check for a refresh precedes each of the reads.
C1_RefreshBeforeEachCall ==
    [][\A s \in Sessions :
         ApiCallStep(s) => session_state[s].expires_at - now >= RefreshMargin]_vars

\* C1 amended: a script run tests the expiry once, in get_spotify_client before
\* its first API read, against the time read there; every read of the run is
\* made either after a refresh in that run or with a token that had at least 60
\* seconds left at that test, and with the access token of the stored record.
C1_RefreshCheckedOncePerRun ==
    \A s \in Sessions :
        pc[s] \in ApiPcs =>
            /\ refreshedInRun[s]
                 \/ session_state[s].expires_at - nowRead[s] >= RefreshMargin
            /\ sp[s] = session_state[s].access_token

\* C1 witness: a run refreshed the token and has gone on to its API reads.
C1_Witness ==
    \E s \in Sessions : pc[s] = "artists" /\ refreshedInRun[s]

\* C2: a call of get_spotify_client with a token that expires more than 60
\* seconds after the current time makes no refresh call (nothing is issued by
\* the accounts service, the cache file is not written) and leaves the stored
\* token as it is.
C2_NoRefreshWhenFresh ==
    [][\A s \in Sessions :
         (ClientStep(s) /\ session_state[s].expires_at - now > RefreshMargin)
            => /\ session_state' = session_state
               /\ issued' = issued
               /\ cache' = cache
               /\ sp'[s] = session_state[s].access_token]_vars

\* C2 witness: get_spotify_client has returned a client for a token with more
\* than 60 seconds left.
C2_Witness ==
    \E s \in Sessions :
        /\ pc[s] = "dashboard"
        /\ sp[s] # 0
        /\ ~refreshedInRun[s]
        /\ session_state[s].expires_at - nowRead[s] > RefreshMargin

C4_NoUncaughtException ==
    \A s \in Sessions : ui[s] # "api_exception"

\* C5 as stated: with a credential missing, every run ends on the script's own
\* message about the credentials, and no run gets to get_token_info, to the
\* login page with its authorize URL, to a refresh or to an API read.
C5_MissingCredentialsHalt ==
    ~AllCredentials =>
        \A s \in Sessions :
            /\ pc[s] \in {"none", "start", "idle"}
            /\ pc[s] = "idle" => ui[s] = "credentials_error"

\* C6 as stated: the token a session holds was granted to the session's own
\* account, whatever the other sessions did.
C6_TokenIsTheSessionsOwn ==
    \A s \in Sessions :
        session_state[s] # NoToken => session_state[s].refresh_token = s

C8_NoResubmission ==
    \A s \in Sessions : attempts[s] # "again"

\* C9: the stored token is absent or is the whole record returned by the
\* latest successful exchange or refresh of the session, and the client of a
\* run that issues API reads carries the access token of that record.
C9_TokenReplacedWholesale ==
    \A s \in Sessions :
        /\ session_state[s] \in {NoToken, lastReturned[s]}
        /\ pc[s] \in ApiPcs =>
              /\ session_state[s] = lastReturned[s]
              /\ sp[s] = lastReturned[s].access_token

\* C9 witness: a run that refreshed the token is about to issue its first API
\* read with the access token of the refreshed record.
C9_Witness ==
    \E s \in Sessions :
        /\ pc[s] = "profile"
        /\ refreshedInRun[s]
        /\ session_state[s].expires_at = nowRead[s] + ExpiresIn
        /\ sp[s] = session_state[s].access_token

\* C10: a code that has been exchanged successfully is no longer in the URL
\* of the session, so no later run submits it again, and the token it was
\* exchanged for is in the session state when the script reruns.
C10_CodeNotResubmitted ==
    \A s \in Sessions :
        /\ \A c \in exchanged[s] : query_params[s] # c
        /\ (exchanged[s] # {} /\ needLogin[s] = "no") => session_state[s] # NoToken

\* C10 witness: a code has been exchanged and the rerun is pending.
C10_Witness ==
    \E s \in Sessions :
        /\ exchanged[s] # {}
        /\ pc[s] = "start"
        /\ session_state[s] # NoToken
        /\ query_params[s] = NoCode

Spec == Init /\ [][Next]_vars
====
